---------------------------- MODULE Spec2Model ----------------------------
(***************************************************************************)
(* Two independent pieces of the repository:                               *)
(*                                                                         *)
(*  - linter/check_package_name.py: the pylint checker PackageName, whose  *)
(*    visit_classdef is called by the host once per class definition;      *)
(*  - recipes/tk/all/conanfile.py: the recipe TkConan, whose generate(),   *)
(*    build() and package() methods are called by the package manager.     *)
(*                                                                         *)
(* Spec is the checker's state machine, SpecTk the recipe's.               *)
(***************************************************************************)
EXTENDS Integers, Sequences, FiniteSets, TLC

VARIABLES
    file,        \* node.root().file of the module being linted
    node,        \* the class definition handed to visit_classdef
    pc,          \* "pending" | "returned" | "raised"
    msgs,        \* diagnostics the visit passed to add_message, in order
    settings,    \* the recipe's settings and options
    tk_pc,       \* position in the recipe's life cycle
    toolchains,  \* generators written by generate()
    calls,       \* what build() / package() have done so far, in order
    tk_error     \* exception that ended the last recipe method, or "none"

vars == <<file, node, pc, msgs, settings, tk_pc, toolchains, calls, tk_error>>
lint_vars == <<file, node, pc, msgs>>
tk_vars == <<settings, tk_pc, toolchains, calls, tk_error>>

(***************************************************************************)
(* Bounds of the model.                                                    *)
(***************************************************************************)
MaxBody == 2     \* statements in a class body
MaxBases == 2    \* names in a class's base list

(***************************************************************************)
(* Text.  A Python string is a sequence of one-character strings.          *)
(***************************************************************************)
UpperToLower ==
    ("A" :> "a") @@ ("B" :> "b") @@ ("C" :> "c") @@ ("D" :> "d") @@
    ("E" :> "e") @@ ("F" :> "f") @@ ("G" :> "g") @@ ("H" :> "h") @@
    ("I" :> "i") @@ ("J" :> "j") @@ ("K" :> "k") @@ ("L" :> "l") @@
    ("M" :> "m") @@ ("N" :> "n") @@ ("O" :> "o") @@ ("P" :> "p") @@
    ("Q" :> "q") @@ ("R" :> "r") @@ ("S" :> "s") @@ ("T" :> "t") @@
    ("U" :> "u") @@ ("V" :> "v") @@ ("W" :> "w") @@ ("X" :> "x") @@
    ("Y" :> "y") @@ ("Z" :> "z")

UpperLetters == DOMAIN UpperToLower

\* Variant of lower: the text is compared with itself.
lower_identity(s) == s

\* str.lower(): every cased character is replaced by its lowercase form.
lower(s) ==
    [i \in 1..Len(s) |->
        IF s[i] \in UpperLetters THEN UpperToLower[s[i]] ELSE s[i]]

DigitChar == <<"0", "1", "2", "3", "4", "5", "6", "7", "8", "9">>

\* repr() of a non-negative int: its decimal digits.
RECURSIVE repr_int(_)
repr_int(n) ==
    IF n < 10 THEN <<DigitChar[n + 1]>>
    ELSE repr_int(n \div 10) \o <<DigitChar[(n % 10) + 1]>>

(***************************************************************************)
(* Literal constants (astroid Const nodes) by the type of their value.     *)
(***************************************************************************)
s_foo == <<"f", "o", "o">>
s_FooBar == <<"F", "o", "o", "B", "a", "r">>

StrValues == {s_foo, s_FooBar}

ConstNone == [type |-> "NoneType"]
ConstTrue == [type |-> "bool", val |-> TRUE]
ConstFalse == [type |-> "bool", val |-> FALSE]
ConstInt(n) == [type |-> "int", val |-> n]
ConstStr(s) == [type |-> "str", val |-> s]

ConstValues ==
    {ConstStr(s) : s \in StrValues} \cup {ConstNone, ConstTrue, ConstFalse, ConstInt(1), ConstInt(10)}

\* Variant of as_string: the runtime value of a string, nothing for the rest.
as_string_strings_only(v) ==
    IF v.type = "str" THEN v.val ELSE <<>>

\* Const.as_string(): repr() of the constant's value, i.e. its source text.
as_string(v) ==
    CASE v.type = "str" -> <<"'">> \o v.val \o <<"'">>
      [] v.type = "NoneType" -> <<"N", "o", "n", "e">>
      [] v.type = "bool" ->
            IF v.val THEN <<"T", "r", "u", "e">> ELSE <<"F", "a", "l", "s", "e">>
      [] v.type = "int" -> repr_int(v.val)

(***************************************************************************)
(* Statements of a class body: the list of children astroid's              *)
(* get_children() yields for each.                                         *)
(***************************************************************************)
AssignName(n) == [kind |-> "AssignName", name |-> n]
Const(v) == [kind |-> "Const", value |-> v]
CallExpr == [kind |-> "Call"]
NameExpr == [kind |-> "Name"]
AssignAttr(n) == [kind |-> "AssignAttr", name |-> n]

StatementShapes ==
    \* name = <literal>
    {<<AssignName("name"), Const(v)>> : v \in ConstValues} \cup
    {   <<AssignName("name"), CallExpr>>,                         \* name = f()
        <<AssignName("version"), Const(ConstStr(s_FooBar))>>,     \* version = "FooBar"
        <<AssignName("name"), NameExpr, Const(ConstStr(s_FooBar))>>, \* name: str = "FooBar"
        <<AssignAttr("name"), Const(ConstStr(s_FooBar))>>,        \* cls.name = "FooBar"
        <<Const(ConstStr(s_FooBar))>>,                            \* a bare string
        <<>>  }                                                   \* pass

RECURSIVE SeqsUpTo(_, _)
SeqsUpTo(S, n) ==
    IF n = 0 THEN {<<>>}
    ELSE LET shorter == SeqsUpTo(S, n - 1) IN
         shorter \cup {Append(q, x) : q \in {r \in shorter : Len(r) = n - 1}, x \in S}

\* The class statement is on line 1 and its i-th body statement on line 1 + i.
ClassDef(bases, shapes) ==
    [ basenames |-> bases,
      lineno |-> 1,
      body |-> [i \in 1..Len(shapes) |-> [lineno |-> 1 + i, children |-> shapes[i]]] ]

BaseNames == {"ConanFile", "object"}

Nodes ==
    {ClassDef(b, sh) : b \in SeqsUpTo(BaseNames, MaxBases),
                       sh \in SeqsUpTo(StatementShapes, MaxBody)}

(***************************************************************************)
(* File paths: the parts pathlib.Path splits the file name into.           *)
(***************************************************************************)
d_all == <<"a", "l", "l">>
d_test_package == <<"t", "e", "s", "t", "_", "p", "a", "c", "k", "a", "g", "e">>
d_test_v1_package ==
    <<"t", "e", "s", "t", "_", "v", "1", "_", "p", "a", "c", "k", "a", "g", "e">>
f_conanfile_py == <<"c", "o", "n", "a", "n", "f", "i", "l", "e", ".", "p", "y">>
f_conanfile_txt == <<"c", "o", "n", "a", "n", "f", "i", "l", "e", ".", "t", "x", "t">>
f_conanfile_pyc == <<"c", "o", "n", "a", "n", "f", "i", "l", "e", ".", "p", "y", "c">>
f_unknown == <<"<", "?", ">">>

\* Module.file is a string, or None for a module that was not built from a file.
FileOf(parts) == [none |-> FALSE, parts |-> parts]
NoFile == [none |-> TRUE, parts |-> <<>>]

Paths ==
    {   <<d_all, f_conanfile_py>>,
        <<d_all, d_test_package, f_conanfile_py>>,
        <<d_all, d_test_v1_package, f_conanfile_py>>,
        <<d_test_package, f_conanfile_py>>,
        <<d_test_package, d_all, f_conanfile_py>>,
        <<d_test_package, f_conanfile_txt>>,
        <<d_test_v1_package, f_conanfile_pyc>>,
        <<f_conanfile_py>>,
        <<f_unknown>>  }

Files == {FileOf(p) : p \in Paths} \cup {NoFile}

\* fnmatch.fnmatchcase(): "*" matches any run of characters, any other
\* character of the pattern matches itself.
RECURSIVE fnmatchcase(_, _)
fnmatchcase(s, pat) ==
    IF pat = <<>> THEN s = <<>>
    ELSE IF Head(pat) = "*"
         THEN fnmatchcase(s, Tail(pat)) \/ (s # <<>> /\ fnmatchcase(Tail(s), pat))
         ELSE s # <<>> /\ Head(s) = Head(pat) /\ fnmatchcase(Tail(s), Tail(pat))

\* PurePath.match() with a relative pattern: the pattern's parts are matched
\* against the path's last parts.
match(parts, pat_parts) ==
    /\ Len(pat_parts) <= Len(parts)
    /\ \A i \in 1..Len(pat_parts) :
          fnmatchcase(parts[Len(parts) - Len(pat_parts) + i], pat_parts[i])

star_py == <<"*", ".", "p", "y">>

\* Variant of is_test: the second pattern is left out.
is_test_without_v1(filename) ==
    match(filename, <<d_test_package, star_py>>)

\* is_test: either pattern matches.
is_test(filename) ==
    \/ match(filename, <<d_test_package, star_py>>)
    \/ match(filename, <<d_test_v1_package, star_py>>)

(***************************************************************************)
(* PackageName.visit_classdef                                              *)
(***************************************************************************)
NoLine == 0

\* BaseChecker.add_message(msgid, node=..., line=...): without a line, the
\* diagnostic is reported at the line of its node.
add_message(msgid, n, line) ==
    [msgid |-> msgid, node |-> n, line |-> IF line = NoLine THEN n.lineno ELSE line]

\* The class node as a diagnostic's node.
NodeRef(n) == [classdef |-> TRUE, lineno |-> n.lineno]

\* Variant of basenames_match: ConanFile is one of the bases.
basenames_contain(basenames) ==
    \E i \in 1..Len(basenames) : basenames[i] = "ConanFile"

\* node.basenames == ['ConanFile']
basenames_match(basenames) == basenames = <<"ConanFile">>

\* The condition on a statement's children.
qualifies(children) ==
    /\ Len(children) = 2
    /\ children[1].kind = "AssignName"
    /\ children[1].name = "name"
    /\ children[2].kind = "Const"

\* Variant of missing_name: the diagnostic goes to the loop variable attr.
missing_name_at_last_attr(n) ==
    IF n.body = <<>> THEN <<add_message("conan-missing-name", NodeRef(n), NoLine)>>
    ELSE LET attr == n.body[Len(n.body)] IN
         <<add_message("conan-missing-name", attr, attr.lineno)>>

\* The call after the loop: node=node, no line.
missing_name(n) == <<add_message("conan-missing-name", NodeRef(n), NoLine)>>

\* Variant of scan: missing-name is reported in test packages too.
RECURSIVE scan_unguarded(_, _, _)
scan_unguarded(n, i, test) ==
    IF i > Len(n.body)
    THEN missing_name(n)
    ELSE LET attr == n.body[i]
             children == attr.children
         IN  IF qualifies(children)
             THEN IF test
                  THEN <<add_message("conan-test-no-name", attr, attr.lineno)>>
                  ELSE LET value == as_string(children[2].value) IN
                       IF lower(value) # value
                       THEN <<add_message("conan-bad-name", attr, attr.lineno)>>
                       ELSE <<>>
             ELSE scan_unguarded(n, i + 1, test)

\* Variant of scan: no return after a lowercase name, the scan goes on.
RECURSIVE scan_no_return(_, _, _)
scan_no_return(n, i, test) ==
    IF i > Len(n.body)
    THEN IF ~test THEN missing_name(n) ELSE <<>>
    ELSE LET attr == n.body[i]
             children == attr.children
         IN  IF qualifies(children)
             THEN IF test
                  THEN <<add_message("conan-test-no-name", attr, attr.lineno)>>
                  ELSE LET value == as_string(children[2].value) IN
                       IF lower(value) # value
                       THEN <<add_message("conan-bad-name", attr, attr.lineno)>>
                       ELSE scan_no_return(n, i + 1, test)
             ELSE scan_no_return(n, i + 1, test)

\* The loop over node.body from its i-th statement on, and what follows it.
RECURSIVE scan(_, _, _)
scan(n, i, test) ==
    IF i > Len(n.body)
    THEN IF ~test THEN missing_name(n) ELSE <<>>
    ELSE LET attr == n.body[i]
             children == attr.children
         IN  IF qualifies(children)
             THEN IF test
                  THEN <<add_message("conan-test-no-name", attr, attr.lineno)>>
                  ELSE LET value == as_string(children[2].value) IN
                       IF lower(value) # value
                       THEN <<add_message("conan-bad-name", attr, attr.lineno)>>
                       ELSE <<>>
             ELSE scan(n, i + 1, test)

\* The whole call: Path(None) raises TypeError before anything is examined.
Visit(f, n) ==
    IF f.none
    THEN [raised |-> TRUE, msgs |-> <<>>]
    ELSE [ raised |-> FALSE,
           msgs |-> IF basenames_match(n.basenames)
                    THEN scan(n, 1, is_test(f.parts))
                    ELSE <<>> ]

visit_classdef ==
    /\ pc = "pending"
    /\ LET r == Visit(file, node) IN
         /\ pc' = IF r.raised THEN "raised" ELSE "returned"
         /\ msgs' = r.msgs
    /\ UNCHANGED <<file, node, tk_vars>>

(***************************************************************************)
(* The recipe's state while the checker runs, and the checker's while the  *)
(* recipe runs.                                                            *)
(***************************************************************************)
NoSettings == [compiler |-> "none"]
TkIdle ==
    /\ settings = NoSettings
    /\ tk_pc = "off"
    /\ toolchains = {}
    /\ calls = <<>>
    /\ tk_error = "none"

Init ==
    /\ file \in Files
    /\ node \in Nodes
    /\ pc = "pending"
    /\ msgs = <<>>
    /\ TkIdle

Next == visit_classdef

Spec == Init /\ [][Next]_vars


(***************************************************************************)
(* TkConan: settings and options of one build.                             *)
(***************************************************************************)
Compilers == {"Visual Studio", "msvc", "gcc", "clang", "apple-clang"}
OSes == {"Linux", "Macos", "Windows", "FreeBSD"}
BuildTypes == {"Debug", "Release"}

AllConfigurations ==
    [ compiler : Compilers,
      os : OSes,
      build_type : BuildTypes,
      shared : BOOLEAN,
      cross : BOOLEAN,       \* cross_building(self)
      tcl_libs : BOOLEAN ]   \* the tcl dependency ships tcl*.lib and tclstub*.lib

\* The Microsoft compilers exist on Windows only, apple-clang on macOS only.
Configurations ==
    { s \in AllConfigurations :
        /\ s.compiler \in {"Visual Studio", "msvc"} => s.os = "Windows"
        /\ s.compiler = "apple-clang" => s.os = "Macos" }

\* conan.tools.microsoft.is_msvc(): the compiler is either of the two names
\* of the Microsoft compiler.
is_msvc(s) == s.compiler \in {"Visual Studio", "msvc"}

\* The test build() and package() make before choosing a build system.
is_visual_studio(s) == s.compiler = "Visual Studio"

\* generate(): the generators it writes.
generate_files(s) ==
    {"VirtualBuildEnv"}
    \cup (IF ~s.cross THEN {"VirtualRunEnv"} ELSE {})
    \cup (IF is_msvc(s)
          THEN {"NMakeToolchain"}
          ELSE {"AutotoolsToolchain", "PkgConfigDeps", "AutotoolsDeps"})

\* Members the class body of TkConan defines.
RecipeAttrs ==
    { "name", "description", "license", "url", "homepage", "topics",
      "package_type", "settings", "options", "default_options",
      "_settings_build", "export_sources", "config_options", "configure",
      "layout", "requirements", "build_requirements", "validate", "source",
      "generate", "_get_default_build_system_subdir", "_get_configure_dir",
      "_patch_sources", "_build_nmake", "_get_autotools_args", "build",
      "package", "package_info" }

\* Members of the ConanFile base class the recipe relies on.
ConanFileAttrs ==
    { "version", "conan_data", "conf", "folders", "source_folder",
      "package_folder", "deps_cpp_info", "deps_env_info", "run", "copy",
      "output", "cpp_info", "env_info", "runenv_info", "requires",
      "tool_requires" }

HasAttr(a) == a \in RecipeAttrs \cup ConanFileAttrs

\* One step of a method body: the lookup of an attribute of self, an effect
\* on the file system or a command, or a raise statement.
Attr(a) == [op |-> "attr", arg |-> a]
Do(what) == [op |-> "do", arg |-> what]
Raise(exc) == [op |-> "raise", arg |-> exc]

\* Runs the steps in order; a lookup of a member that does not exist raises
\* AttributeError and ends the method.
RECURSIVE Exec(_, _)
Exec(ops, done) ==
    IF ops = <<>> THEN [error |-> "none", done |-> done]
    ELSE LET o == Head(ops) IN
         CASE o.op = "attr" ->
                IF HasAttr(o.arg) THEN Exec(Tail(ops), done)
                ELSE [error |-> "AttributeError", done |-> done]
           [] o.op = "do" -> Exec(Tail(ops), Append(done, o.arg))
           [] o.op = "raise" -> [error |-> o.arg, done |-> done]

_get_configure_dir == <<Attr("_get_default_build_system_subdir"), Attr("settings"),
                        Attr("source_folder")>>

_patch_sources ==
    <<Do("apply_conandata_patches")>>
    \* build_system = "unix"
    \o <<Attr("_get_configure_folder"), Do("patch unix/configure"),
         Do("patch unix/Makefile.in")>>
    \* build_system = "win"
    \o <<Attr("_get_configure_folder"), Do("patch win/Makefile.in")>>
    \o <<Attr("source_folder"), Attr("_source_subfolder"), Do("patch win/rules-ext.vc")>>
    \o <<Attr("source_folder"), Attr("_source_subfolder"), Do("patch win/rules.vc")>>
    \o <<Attr("_get_configure_folder"), Do("patch win/Makefile.in TCL_GENERIC_DIR")>>
    \o <<Attr("_source_subfolder"), Do("patch win/rules.vc cwarn"),
         Do("patch win/rules.vc OPTIMIZATIONS")>>
    \o <<Do("_patch_sources returns")>>

_build_nmake(s, target) ==
    <<Attr("options"), Attr("settings"), Attr("deps_cpp_info"), Attr("version")>>
    \o (IF ~s.tcl_libs THEN <<Raise("ConanException")>> ELSE <<>>)
    \o <<Attr("deps_cpp_info"), Attr("run"), Attr("_get_configure_dir"),
         Attr("source_folder"), Attr("package_folder"), Attr("deps_env_info"),
         Attr("_get_configure_folder")>>
    \o <<Do(target)>>

_get_autotools_args == <<Attr("deps_cpp_info")>>

build_ops(s) ==
    <<Attr("_patch_sources")>> \o _patch_sources
    \o <<Attr("settings")>>
    \o (IF is_visual_studio(s)
        THEN <<Attr("_build_nmake")>> \o _build_nmake(s, "nmake release")
        ELSE <<Attr("_get_configure_dir")>> \o _get_configure_dir
             \o <<Do("autotools.configure")>>
             \o <<Attr("_get_autotools_args")>> \o _get_autotools_args
             \o <<Do("autotools.make")>>)

package_ops(s) ==
    <<Attr("copy"), Attr("_source_subfolder"), Do("copy license.terms")>>
    \o <<Attr("settings")>>
    \o (IF is_visual_studio(s)
        THEN <<Attr("_build_nmake")>> \o _build_nmake(s, "nmake install")
        ELSE <<Attr("_get_autotools_args")>> \o _get_autotools_args
             \o <<Do("autotools.make install")>>
             \o <<Attr("_get_autotools_args")>> \o _get_autotools_args
             \o <<Do("autotools.make install-private-headers")>>
             \o <<Attr("package_folder"), Do("rmdir lib/pkgconfig"),
                  Attr("package_folder"), Do("rmdir man"),
                  Attr("package_folder"), Do("rmdir share")>>)
    \o <<Attr("package_folder"), Do("fix tkConfig.sh"),
         Do("fix_apple_shared_install_name")>>

(***************************************************************************)
(* The recipe's methods, called in this order by the package manager; in   *)
(* the local flow each is a command of its own, so package() can be run    *)
(* whatever build() ended with.                                            *)
(***************************************************************************)
generate ==
    /\ tk_pc = "installed"
    /\ toolchains' = generate_files(settings)
    /\ tk_pc' = "generated"
    /\ UNCHANGED <<settings, calls, tk_error, lint_vars>>

build ==
    /\ tk_pc = "generated"
    /\ LET r == Exec(build_ops(settings), <<>>) IN
         /\ calls' = r.done
         /\ tk_error' = r.error
    /\ tk_pc' = "built"
    /\ UNCHANGED <<settings, toolchains, lint_vars>>

package ==
    /\ tk_pc = "built"
    /\ LET r == Exec(package_ops(settings), <<>>) IN
         /\ calls' = calls \o r.done
         /\ tk_error' = r.error
    /\ tk_pc' = "packaged"
    /\ UNCHANGED <<settings, toolchains, lint_vars>>

LintIdle ==
    /\ file = NoFile
    /\ node = ClassDef(<<>>, <<>>)
    /\ pc = "off"
    /\ msgs = <<>>

InitTk ==
    /\ settings \in Configurations
    /\ tk_pc = "installed"
    /\ toolchains = {}
    /\ calls = <<>>
    /\ tk_error = "none"
    /\ LintIdle

NextTk == generate \/ build \/ package

SpecTk == InitTk /\ [][NextTk]_vars

\* C9: the toolchain generate() wrote is the one of the build system that
\* build() and package() select: the NMake toolchain exactly when they take
\* the nmake branch, the Autotools toolchain with PkgConfigDeps and
\* AutotoolsDeps exactly when they take the autotools branch.
C9_ToolchainMatchesBuildSystem ==
    tk_pc \in {"generated", "built", "packaged"} =>
        /\ "NMakeToolchain" \in toolchains <=> is_visual_studio(settings)
        /\ {"AutotoolsToolchain", "PkgConfigDeps", "AutotoolsDeps"} \subseteq toolchains
             <=> ~is_visual_studio(settings)

\* C10: when the tcl dependency is complete, build() ends without an error,
\* having completed _patch_sources() and then run exactly one build system.
C10_BuildReachesBuildCommand ==
    (tk_pc = "built" /\ settings.tcl_libs) =>
        /\ tk_error = "none"
        /\ \E i \in 1..Len(calls) :
              /\ calls[i] = "_patch_sources returns"
              /\ SubSeq(calls, i + 1, Len(calls)) \in
                    { <<"nmake release">>, <<"autotools.configure", "autotools.make">> }

(***************************************************************************)
(* Vocabulary of the properties, stated on the input alone.                *)
(***************************************************************************)
Visited == pc # "pending"

HasPath == ~file.none

ExactBase == node.basenames = <<"ConanFile">>

EndsWithPy(s) ==
    Len(s) >= 3 /\ SubSeq(s, Len(s) - 2, Len(s)) = <<".", "p", "y">>

\* The file is a .py file directly inside test_package or test_v1_package.
TestPath ==
    /\ HasPath
    /\ Len(file.parts) >= 2
    /\ file.parts[Len(file.parts) - 1] \in {d_test_package, d_test_v1_package}
    /\ EndsWithPy(file.parts[Len(file.parts)])

\* An assignment statement whose target is `name`: two children, the first
\* the name target.
AssignsName(st) ==
    Len(st.children) = 2 /\ st.children[1] = AssignName("name")

\* ... and whose value is a literal constant.
AssignsLiteral(st) ==
    AssignsName(st) /\ st.children[2].kind = "Const"

\* Position of the first assignment of a literal to `name`, 0 when there is none.
FirstLiteral ==
    IF \E i \in 1..Len(node.body) : AssignsLiteral(node.body[i])
    THEN CHOOSE i \in 1..Len(node.body) :
            /\ AssignsLiteral(node.body[i])
            /\ \A j \in 1..(i - 1) : ~AssignsLiteral(node.body[j])
    ELSE 0

HasUpper(text) == \E i \in 1..Len(text) : text[i] \in UpperLetters

OneDiagnostic(kind) == Len(msgs) = 1 /\ msgs[1].msgid = kind

\* One diagnostic of the kind, attached to body statement k and its line.
DiagnosticAt(kind, k) ==
    msgs = <<[msgid |-> kind, node |-> node.body[k], line |-> node.body[k].lineno]>>

(***************************************************************************)
(* The four outcomes of a visit.                                           *)
(***************************************************************************)
CorrectlyNamed == ~TestPath /\ FirstLiteral # 0 /\ msgs = <<>>

BadlyCased == ~TestPath /\ FirstLiteral # 0 /\ OneDiagnostic("conan-bad-name")

MissingAttribute == ~TestPath /\ FirstLiteral = 0 /\ OneDiagnostic("conan-missing-name")

TestPackageExempt ==
    /\ TestPath
    /\ IF FirstLiteral # 0 THEN OneDiagnostic("conan-test-no-name") ELSE msgs = <<>>

Outcomes == <<CorrectlyNamed, BadlyCased, MissingAttribute, TestPackageExempt>>

\* C1: a visited class whose base list is exactly [ConanFile], in a module
\* with a file path, ends in exactly one of the four outcomes: correctly
\* named, badly cased, missing attribute, test-package exempt.
C1_ExactlyOneOutcome ==
    (Visited /\ HasPath /\ ExactBase) =>
        /\ pc = "returned"
        /\ Cardinality({o \in 1..4 : Outcomes[o]}) = 1

C1_Witness == pc = "returned" /\ ExactBase /\ TestPath /\ FirstLiteral = 0 /\ node.body # <<>>

\* C2: a class whose base list is not exactly [ConanFile] gets no diagnostic,
\* whatever its body and whatever the module's file.
C2_OtherBasesSilent ==
    (Visited /\ ~ExactBase) => msgs = <<>>

C2_Witness ==
    /\ pc = "returned"
    /\ node.basenames = <<"ConanFile", "object">>
    /\ ~TestPath
    /\ FirstLiteral # 0
    /\ node.body[FirstLiteral].children[2] = Const(ConstStr(s_FooBar))

\* C3: base list exactly [ConanFile], a path that is not a test-package path,
\* no assignment to `name` in the body: exactly one diagnostic, missing-name,
\* whose node is the class node and whose line is the class node's line.
C3_MissingNameAtClass ==
    ( /\ Visited /\ HasPath /\ ExactBase /\ ~TestPath
      /\ \A i \in 1..Len(node.body) : ~AssignsName(node.body[i]) )
    => /\ pc = "returned"
       /\ msgs = << [ msgid |-> "conan-missing-name",
                      node |-> [classdef |-> TRUE, lineno |-> node.lineno],
                      line |-> node.lineno ] >>

C3_Witness ==
    /\ pc = "returned" /\ ExactBase /\ ~TestPath
    /\ Len(node.body) = MaxBody
    /\ \A i \in 1..Len(node.body) : ~AssignsName(node.body[i])
    /\ OneDiagnostic("conan-missing-name")

\* C4 as claimed: in a test-package path, a body with any assignment to
\* `name` gets exactly one test-package-has-name diagnostic.
C4_AnyAssignment ==
    ( /\ Visited /\ ExactBase /\ TestPath
      /\ \E i \in 1..Len(node.body) : AssignsName(node.body[i]) )
    => OneDiagnostic("conan-test-no-name")

\* C4 as amended: in a test-package path, a body with an assignment of a
\* literal constant to `name` gets exactly one diagnostic, of kind
\* test-package-has-name, at the first such assignment, whatever the case of
\* the literal.
C4_LiteralAssignment ==
    (Visited /\ ExactBase /\ TestPath /\ FirstLiteral # 0)
    => /\ pc = "returned"
       /\ DiagnosticAt("conan-test-no-name", FirstLiteral)

C4_Witness ==
    /\ pc = "returned" /\ ExactBase /\ FirstLiteral # 0
    /\ file.parts = <<d_all, d_test_v1_package, f_conanfile_py>>
    /\ node.body[FirstLiteral].children[2] = Const(ConstStr(s_FooBar))
    /\ OneDiagnostic("conan-test-no-name")

\* C5: base list exactly [ConanFile], not a test-package path, a literal
\* assigned to `name`: when the literal's source text differs from its
\* lowercase form, exactly one bad-name diagnostic at that assignment's line;
\* when it is all lowercase, no diagnostic.
C5_CaseOfLiteral ==
    (Visited /\ HasPath /\ ExactBase /\ ~TestPath /\ FirstLiteral # 0)
    => /\ pc = "returned"
       /\ IF HasUpper(as_string(node.body[FirstLiteral].children[2].value))
          THEN DiagnosticAt("conan-bad-name", FirstLiteral)
          ELSE msgs = <<>>

C5_Witness ==
    /\ pc = "returned" /\ ExactBase /\ ~TestPath /\ FirstLiteral # 0
    /\ node.body[FirstLiteral].children[2] = Const(ConstStr(s_FooBar))
    /\ OneDiagnostic("conan-bad-name")
    /\ msgs[1].line = 1 + FirstLiteral

\* C6: visit_classdef never raises.
C6_NeverRaises == pc # "raised"

\* C7: the diagnostics of a visit are those of the body cut just after its
\* first assignment of a literal to `name`, and those of that assignment
\* alone: nothing after it and no statement before it has any effect.
C7_FirstLiteralDecides ==
    (Visited /\ FirstLiteral # 0)
    => /\ msgs = Visit(file, [node EXCEPT !.body = SubSeq(node.body, 1, FirstLiteral)]).msgs
       /\ msgs = Visit(file, [node EXCEPT !.body = <<node.body[FirstLiteral]>>]).msgs

C7_Witness ==
    /\ pc = "returned" /\ ExactBase /\ ~TestPath
    /\ Len(node.body) = 2
    /\ node.body[1].children = <<AssignName("name"), Const(ConstStr(s_foo))>>
    /\ node.body[2].children = <<AssignName("name"), Const(ConstStr(s_FooBar))>>
    /\ msgs = <<>>

\* C8: not in a test-package path, when the first literal assigned to `name`
\* is not a string, bad-name is emitted exactly when its source text has an
\* uppercase letter: for None, True and False, and not for 1; missing-name is
\* never emitted.
C8_NonStringLiteral ==
    LET v == node.body[FirstLiteral].children[2].value IN
    ( /\ Visited /\ HasPath /\ ExactBase /\ ~TestPath /\ FirstLiteral # 0
      /\ v.type # "str" )
    => /\ v.type \in {"NoneType", "bool"} => DiagnosticAt("conan-bad-name", FirstLiteral)
       /\ v.type = "int" => msgs = <<>>
       /\ HasUpper(as_string(v)) <=> OneDiagnostic("conan-bad-name")
       /\ ~OneDiagnostic("conan-missing-name")

C8_Witness ==
    /\ pc = "returned" /\ ExactBase /\ ~TestPath /\ FirstLiteral # 0
    /\ node.body[FirstLiteral].children[2] = Const(ConstNone)
    /\ OneDiagnostic("conan-bad-name")

====
